---- MODULE Spec2Model ----
(***************************************************************************)
(* The LoRaWAN addressing codec of lorawan/src/subnet.rs: DevAddr, NetId,  *)
(* NetClass and SubnetAddr and the conversions among them over an ordered  *)
(* NetID list.                                                             *)
(*                                                                         *)
(* TLC's integers are 32-bit signed, so a u32 is the pair <<hi, lo>> of    *)
(* its two 16-bit halves: 0xFC00D410 is <<0xFC00, 0xD410>>.  The shifts,   *)
(* masks, additions and comparisons of the source are computed on that     *)
(* representation with the width of the source (32 bits).                  *)
(***************************************************************************)
EXTENDS Integers, Sequences, FiniteSets, TLC

VARIABLES
    netid_list,   \* the NetID list snapshot the caller holds
    op,           \* the operation whose result is in res, or "idle"
    arg,          \* the argument of that operation
    res,          \* what it returned
    panicked      \* it panicked on an arithmetic overflow instead of returning

vars == <<netid_list, op, arg, res, panicked>>

-----------------------------------------------------------------------------
(* u32 arithmetic                                                          *)

\* 2^16, the weight of the high half
Half == 2 ^ 16

\* the u32 literal 0xHHHHLLLL
Word(hi, lo) == <<hi, lo>>

\* the u32 with value n, for 0 <= n < 2^31
FromNat(n) == <<n \div Half, n % Half>>

\* the value of a u32 below 2^31
ToNat(x) == x[1] * Half + x[2]

\* x << k and x >> k on u32, for 0 <= k < 32: bits shifted out are lost
Shl(x, k) ==
    IF k < 16
    THEN <<(x[1] * (2 ^ k) + (x[2] * (2 ^ k)) \div Half) % Half, (x[2] * (2 ^ k)) % Half>>
    ELSE <<(x[2] * (2 ^ (k - 16))) % Half, 0>>

Shr(x, k) ==
    IF k < 16
    THEN <<x[1] \div (2 ^ k), x[2] \div (2 ^ k) + (x[1] % (2 ^ k)) * (2 ^ (16 - k))>>
    ELSE <<0, x[1] \div (2 ^ (k - 16))>>

\* a & b and a | b on the 16-bit halves, bit by bit from the lowest
RECURSIVE And16(_, _)
And16(a, b) ==
    IF a = 0 \/ b = 0 THEN 0
    ELSE (a % 2) * (b % 2) + 2 * And16(a \div 2, b \div 2)

RECURSIVE Or16(_, _)
Or16(a, b) ==
    IF a = 0 THEN b
    ELSE IF b = 0 THEN a
    ELSE (IF a % 2 = 1 \/ b % 2 = 1 THEN 1 ELSE 0) + 2 * Or16(a \div 2, b \div 2)

BitAnd(x, y) == <<And16(x[1], y[1]), And16(x[2], y[2])>>

BitOr(x, y) == <<Or16(x[1], y[1]), Or16(x[2], y[2])>>

\* x + y on u32 as a build without overflow checks computes it (modulo 2^32)
Add(x, y) ==
    LET lo == x[2] + y[2]
        hi == x[1] + y[1] + lo \div Half
    IN  <<hi % Half, lo % Half>>

\* x + y does not fit a u32: a build with overflow checks panics there
AddOverflows(x, y) == x[1] + y[1] + (x[2] + y[2]) \div Half >= Half

\* x < y and x >= y on u32
Lt(x, y) == x[1] < y[1] \/ (x[1] = y[1] /\ x[2] < y[2])

Ge(x, y) == ~Lt(x, y)

\* x - y on u32 as a build without overflow checks computes it (modulo 2^32)
Sub(x, y) ==
    LET borrow == IF x[2] < y[2] THEN 1 ELSE 0
    IN  <<(x[1] - y[1] - borrow + Half) % Half, (x[2] - y[2] + Half) % Half>>

\* x - y is negative: a build with overflow checks panics there
SubOverflows(x, y) == Lt(x, y)

\* Option<T>: None is the empty tuple, Some(v) the one-element tuple
None == << >>

Some(v) == <<v>>

\* slice::contains
contains(list, x) == \E i \in 1 .. Len(list) : list[i] = x

-----------------------------------------------------------------------------
(* NetClass                                                                *)

ADDR_LEN == <<25, 24, 20, 17, 15, 13, 10, 7>>

ID_LEN == <<6, 6, 9, 11, 12, 13, 15, 17>>

addr_len(netclass) ==
    IF netclass + 1 \in DOMAIN ADDR_LEN THEN ADDR_LEN[netclass + 1] ELSE 0

id_len(netclass) ==
    IF netclass + 1 \in DOMAIN ID_LEN THEN ID_LEN[netclass + 1] ELSE 0

\* impl From<&NetId> for NetClass: (netid.0 >> 21) as u8
NetClass_from(netid) == ToNat(BitAnd(Shr(netid, 21), FromNat(\hFF)))

var_net_class(netclass) ==
    LET idlen == id_len(netclass) IN
    CASE netclass = 0 -> FromNat(0)
      [] netclass = 1 -> Shl(FromNat(\b10), idlen)
      [] netclass = 2 -> Shl(FromNat(\b110), idlen)
      [] netclass = 3 -> Shl(FromNat(\b1110), idlen)
      [] netclass = 4 -> Shl(FromNat(\b11110), idlen)
      [] netclass = 5 -> Shl(FromNat(\b111110), idlen)
      [] netclass = 6 -> Shl(FromNat(\b1111110), idlen)
      [] netclass = 7 -> Shl(FromNat(\b11111110), idlen)
      [] OTHER -> FromNat(0)

-----------------------------------------------------------------------------
(* DevAddr -> NetClass, NetId, nwk_addr                                    *)

RECURSIVE netid_shift_prefix(_, _)
netid_shift_prefix(prefix, index) ==
    IF BitAnd(prefix, Shl(FromNat(1), index)) = FromNat(0) THEN 7 - index
    ELSE IF index > 0 THEN netid_shift_prefix(prefix, index - 1)
    ELSE 0

\* DevAddr::net_class, had it shifted the topmost byte one bit too far
net_class_shifted(dev_addr) == netid_shift_prefix(Shr(dev_addr, 25), 7)

\* DevAddr::net_class: the scan of the first big-endian byte
net_class(dev_addr) ==
    LET first == Shr(dev_addr, 24) IN netid_shift_prefix(first, 7)

\* impl From<u32> for NetId, had its mask been one bit wider
NetId_from_u32_wide(v) == BitAnd(v, Word(\h01FF, \hFFFF))

\* impl From<u32> for NetId: v & 0xFFFFFF
NetId_from_u32(v) == BitAnd(v, Word(\h00FF, \hFFFF))

\* get_netid, had it shifted the whole prefix out, its last bit included
get_netid_past_prefix(dev_addr, prefix_len, nwkidbits) ==
    Shr(Shl(dev_addr, prefix_len), 31 - nwkidbits)

get_netid(dev_addr, prefix_len, nwkidbits) ==
    Shr(Shl(dev_addr, prefix_len - 1), 31 - nwkidbits)

\* impl From<DevAddr> for NetId
NetId_from(dev_addr) ==
    LET net_type == net_class(dev_addr)
        id == get_netid(dev_addr, net_type + 1, id_len(net_type))
    IN  NetId_from_u32(BitOr(id, Shl(FromNat(net_type), 21)))

\* DevAddr::nwk_addr, had it masked with the width of the identifier
nwk_addr_id_mask(dev_addr) ==
    LET netid == NetId_from(dev_addr)
        len == id_len(NetClass_from(netid))
        mask == Sub(Shl(FromNat(1), len), FromNat(1))
    IN  BitAnd(dev_addr, mask)

nwk_addr(dev_addr) ==
    LET netid == NetId_from(dev_addr)
        len == addr_len(NetClass_from(netid))
        mask == Sub(Shl(FromNat(1), len), FromNat(1))
    IN  BitAnd(dev_addr, mask)

-----------------------------------------------------------------------------
(* NetId                                                                   *)

RETIRED_NETID == Word(\h0020, \h0010)

\* NetId::is_local, had it left the retired NetId out
NetId_is_local_listed(netid, list) == contains(list, netid)

NetId_is_local(netid, list) ==
    IF netid = RETIRED_NETID THEN TRUE ELSE contains(list, netid)

DevAddr_is_local(dev_addr, list) == NetId_is_local(NetId_from(dev_addr), list)

\* NetId::size, had it read the width of the identifier for that of the
\* address
size_of_id(netid) == Shl(FromNat(1), id_len(NetClass_from(netid)))

size(netid) == Shl(FromNat(1), addr_len(NetClass_from(netid)))

\* the position of the first entry equal to netid, where the for loop of
\* addr_range breaks (the list contains netid)
first_index(netid, list) ==
    CHOOSE i \in 1 .. Len(list) :
        list[i] = netid /\ \A j \in 1 .. (i - 1) : list[j] # netid

\* what the for loop of addr_range has in lower after the entries from .. to,
\* starting from 0: <<sum, ovf>>, the sum of their sizes modulo 2^32, and
\* whether a += did not fit a u32.  The loop adds the sizes one after the
\* other; the sum is split in halves here to keep the evaluation shallow on
\* long lists.  That gives the same sum (+ modulo 2^32 is associative) and
\* the same ovf (sizes are positive, so some partial sum does not fit just
\* when the whole sum does not).
RECURSIVE span(_, _, _)
span(list, from, to) ==
    IF from > to THEN <<FromNat(0), FALSE>>
    ELSE IF from = to THEN <<size(list[from]), FALSE>>
    ELSE LET mid == (from + to) \div 2
             l == span(list, from, mid)
             r == span(list, mid + 1, to)
         IN  <<Add(l[1], r[1]), l[2] \/ r[2] \/ AddOverflows(l[1], r[1])>>

\* An operation that adds or subtracts on u32 is modelled by the pair
\* <<v, overflowed>>: v is what it returns when + and - wrap (a build without
\* overflow checks), overflowed says that a + or - it executed did not fit
\* (a build with overflow checks panics at the first of them).

\* Option::map and Option::and_then run their closure on the value the
\* receiver computed, once: The({e(x) : x \in {d}}) is e(d)
The(S) == CHOOSE x \in S : TRUE

\* NetId::addr_range, had it returned the last address of the range for its
\* upper bound
addr_range_inclusive(netid, list) ==
    IF ~contains(list, netid) THEN <<None, FALSE>>
    ELSE The({ <<Some(<<before[1], Sub(Add(before[1], sz), FromNat(1))>>),
                 before[2] \/ AddOverflows(before[1], sz)>> :
                    before \in {span(list, 1, first_index(netid, list) - 1)},
                    sz \in {size(netid)} })

\* NetId::addr_range: lower and upper pass over the entries before netid
\* (before is lower there), then upper += size at netid and the loop breaks
addr_range(netid, list) ==
    IF ~contains(list, netid) THEN <<None, FALSE>>
    ELSE The({ <<Some(<<before[1], Add(before[1], sz)>>),
                 before[2] \/ AddOverflows(before[1], sz)>> :
                    before \in {span(list, 1, first_index(netid, list) - 1)},
                    sz \in {size(netid)} })

\* DevAddr::from_nwkaddr, had it ORed nwkaddr in before the shift
DevAddr_from_nwkaddr_unshifted(netid, nwkaddr) ==
    LET netclass == NetClass_from(netid)
        addr == BitOr(var_net_class(netclass), netid)
    IN  Some(Shl(BitOr(addr, nwkaddr), addr_len(netclass)))

\* DevAddr::from_nwkaddr: always Some
DevAddr_from_nwkaddr(netid, nwkaddr) ==
    LET netclass == NetClass_from(netid)
        addr == BitOr(var_net_class(netclass), netid)
    IN  Some(BitOr(Shl(addr, addr_len(netclass)), nwkaddr))

\* NetId::to_devaddr, had it left the class prefix out
to_devaddr_no_prefix(netid, nwkaddr) ==
    BitOr(Shl(netid, addr_len(NetClass_from(netid))), nwkaddr)

to_devaddr(netid, nwkaddr) ==
    LET netclass == NetClass_from(netid)
        addr == BitOr(var_net_class(netclass), netid)
    IN  BitOr(Shl(addr, addr_len(netclass)), nwkaddr)

\* SubnetAddr::within_range, had it taken the upper bound into the range
within_range_closed(subnetaddr, netid, list) ==
    The({ <<IF ran[1] = None THEN FALSE
            ELSE Ge(subnetaddr, ran[1][1][1]) /\ ~Lt(ran[1][1][2], subnetaddr),
            ran[2]>> : ran \in {addr_range(netid, list)} })

\* SubnetAddr::within_range
within_range(subnetaddr, netid, list) ==
    The({ <<IF ran[1] = None THEN FALSE
            ELSE Ge(subnetaddr, ran[1][1][1]) /\ Lt(subnetaddr, ran[1][1][2]),
            ran[2]>> : ran \in {addr_range(netid, list)} })

\* the position at which iter().find(..) stops, given what within_range ran
\* to on each of the n entries: that of the first match, or n + 1
find(scan, n) ==
    LET hits == {p[1] : p \in {q \in scan : q[2][1]}}
    IN  IF hits = {} THEN n + 1 ELSE CHOOSE i \in hits : \A j \in hits : i <= j

\* NetId::from_subnet_addr, had it gone on to the entry after the first
\* match
from_subnet_addr_next(subnetaddr, list) ==
    The({ The({ <<IF at >= Len(list) THEN None ELSE Some(list[at + 1]),
                  \E p \in scan : p[1] <= at /\ p[2][2]>> :
                    at \in {find(scan, Len(list))} }) :
            scan \in {{<<i, within_range(subnetaddr, list[i], list)>> :
                        i \in 1 .. Len(list)}} })

\* NetId::from_subnet_addr: iter().find(..) calls within_range, and so
\* addr_range, on every entry up to the first that matches, where it stops
from_subnet_addr(subnetaddr, list) ==
    The({ The({ <<IF at > Len(list) THEN None ELSE Some(list[at]),
                  \E p \in scan : p[1] <= at /\ p[2][2]>> :
                    at \in {find(scan, Len(list))} }) :
            scan \in {{<<i, within_range(subnetaddr, list[i], list)>> :
                        i \in 1 .. Len(list)}} })

-----------------------------------------------------------------------------
(* SubnetAddr <-> DevAddr                                                  *)

\* SubnetAddr::from_devaddr, had it taken a missing range for one that
\* begins at 0
SubnetAddr_from_devaddr_or_zero(dev_addr, list) ==
    The({ The({ IF ran[1] = None THEN <<Some(nwk), FALSE>>
                ELSE <<Some(Add(ran[1][1][1], nwk)),
                       ran[2] \/ AddOverflows(ran[1][1][1], nwk)>> :
                    ran \in {addr_range(netid, list)}, nwk \in {nwk_addr(dev_addr)} }) :
            netid \in {NetId_from(dev_addr)} })

\* SubnetAddr::from_devaddr
SubnetAddr_from_devaddr(dev_addr, list) ==
    The({ The({ IF ran[1] = None THEN <<None, ran[2]>>
                ELSE <<Some(Add(ran[1][1][1], nwk)),
                       ran[2] \/ AddOverflows(ran[1][1][1], nwk)>> :
                    ran \in {addr_range(netid, list)}, nwk \in {nwk_addr(dev_addr)} }) :
            netid \in {NetId_from(dev_addr)} })

\* DevAddr::from_subnet up to its call of to_devaddr, had it taken the
\* subnet address off the upper bound of the range
from_subnet_nwkaddr_off_upper(subnetaddr, list) ==
    The({ IF found[1] = None THEN <<None, found[2]>>
          ELSE The({ IF ran[1] = None THEN <<None, found[2] \/ ran[2]>>
                     ELSE <<Some(<<found[1][1], Sub(ran[1][1][2], subnetaddr),
                                   SubOverflows(ran[1][1][2], subnetaddr)>>),
                            found[2] \/ ran[2]>> :
                        ran \in {addr_range(found[1][1], list)} }) :
            found \in {from_subnet_addr(subnetaddr, list)} })

\* DevAddr::from_subnet up to its call of to_devaddr: the NetId found, the
\* subnetaddr.0 - lower.0 it passes for nwkaddr, and whether that - did not
\* fit
from_subnet_nwkaddr(subnetaddr, list) ==
    The({ IF found[1] = None THEN <<None, found[2]>>
          ELSE The({ IF ran[1] = None THEN <<None, found[2] \/ ran[2]>>
                     ELSE <<Some(<<found[1][1], Sub(subnetaddr, ran[1][1][1]),
                                   SubOverflows(subnetaddr, ran[1][1][1])>>),
                            found[2] \/ ran[2]>> :
                        ran \in {addr_range(found[1][1], list)} }) :
            found \in {from_subnet_addr(subnetaddr, list)} })

\* DevAddr::from_subnet, had it passed the subnet address on to to_devaddr
\* without taking the lower bound of the range off
DevAddr_from_subnet_keeps_lower(subnetaddr, list) ==
    The({ IF call[1] = None THEN call
          ELSE <<Some(to_devaddr(call[1][1][1], subnetaddr)), call[2]>> :
            call \in {from_subnet_nwkaddr(subnetaddr, list)} })

\* DevAddr::from_subnet
DevAddr_from_subnet(subnetaddr, list) ==
    The({ IF call[1] = None THEN call
          ELSE <<Some(to_devaddr(call[1][1][1], call[1][1][2])),
                 call[2] \/ call[1][1][3]>> :
            call \in {from_subnet_nwkaddr(subnetaddr, list)} })

-----------------------------------------------------------------------------
(* Inputs                                                                  *)

\* the NetIds of tests::test_net_id, and 0x00007F, the NetId of 0xFFFFFFFF
NetIdPool ==
    { Word(\h00E0, \h0001), Word(\h00C0, \h0035), Word(\h0060, \h002D),
      RETIRED_NETID, FromNat(\h7F) }

MaxListLen == 3

\* every list of at most MaxListLen NetIds of the pool, in every order, with
\* repeated entries too
ShortLists == UNION {[1 .. k -> NetIdPool] : k \in 0 .. MaxListLen}

\* NetIDList of tests::test_net_id
TestList == <<Word(\h00E0, \h0001), Word(\h00C0, \h0035), Word(\h0060, \h002D)>>

\* netid_list of tests::exercise_subnet
ExerciseList ==
    <<Word(\h00C0, \h0050), Word(\h00E0, \h0001), Word(\h00C0, \h0035),
      Word(\h0060, \h002D)>>

\* tests::mutate_array: src with the entry at pos (from 0) replaced by item
mutate_array(item, src, pos) == [src EXCEPT ![pos + 1] = item]

\* the lists of the tests: NetIDList, and the lists tests::test_exercise makes
\* for 0xFC00D410, whose NetId 0xC00035 then occurs twice in three of them
TestLists ==
    {TestList} \cup {mutate_array(Word(\h00C0, \h0035), ExerciseList, pos) : pos \in 0 .. 3}

\* the number of class 0 spans (2^25 addresses each) that fill the u32 space
SpanFill == 2 ^ (32 - ADDR_LEN[1])

\* the first SpanFill - 1 or SpanFill class 0 NetIds (0x000000, 0x000001,
\* ..), then a class 7 NetId: the spans add up to just below, or to just
\* above, 2^32
LongLists ==
    { [i \in 1 .. (k + 1) |-> IF i <= k THEN FromNat(i - 1) ELSE Word(\h00E0, \h0001)] :
        k \in {SpanFill - 1, SpanFill} }


\* the DevAddrs of the tests, and others that carry the NetIds of NetIdPool
DevAddrs ==
    { Word(\h9000, \h0000), Word(\h9000, \h0001), Word(\h90FF, \hFFFF),
      Word(\hFC00, \hD410), Word(\hFC00, \hD400), Word(\hFC00, \hD7FF),
      Word(\hE05A, \h0008), Word(\hE05B, \hFFFF),
      Word(\hFE00, \h0080), Word(\hFE00, \h00FF), Word(\hFE00, \h0000),
      Word(\hFFFF, \hFFFF), Word(\hFF00, \h0000), Word(\hFF80, \h0001),
      Word(\h5BFF, \hFFFF), Word(\h5A00, \h0000), Word(\hADFF, \hFFFF),
      Word(\hD6DF, \hFFFF), Word(\hEB6F, \hFFFF), Word(\hF5B6, \hFFFF),
      Word(\hFADB, \h7FFF), Word(\hFD6D, \hB7FF), Word(\hFEB6, \hDB7F),
      Word(\h0000, \h0000), Word(\h0200, \h0000), Word(\hE009, \hABCD),
      Word(\h0000, \hB529), Word(\h0410, \hBEA3), Word(\hFC01, \h4001) }

\* integers a NetId is constructed from: the 0x2D and 127 of tests::test_id,
\* NetIds as they are, and integers of 2^24 and more
U32s ==
    { FromNat(\h2D), FromNat(127), Word(\h00E0, \h0001), Word(\h00FF, \hFFFF),
      Word(\h0100, \h0000), Word(\h0160, \h002D), Word(\hFF60, \h002D),
      Word(\h8000, \h0000), Word(\hFC00, \hD410), Word(\hFFFF, \hFFFF) }

\* NetIds of every class, some with identifier bits beyond id_len
NetIds ==
    NetIdPool \cup
    { FromNat(\h2D), Word(\h0020, \h002D), Word(\h0040, \h016D), Word(\h0060, \h05B7),
      Word(\h0080, \h0B6D), Word(\h00A0, \h16DB), Word(\h00C0, \h5B6D),
      Word(\h00E1, \h6DB6), Word(\h00C0, \h0050), Word(\h00FF, \hFFFF),
      Word(\h001F, \hFFFF), Word(\h00DF, \hFFFF), Word(\h009F, \hFFFF),
      Word(\h00C0, \h8035) }

\* local addresses for to_devaddr: the least, some small ones, the largest
\* of the NetId's class, and one beyond it
NwkAddrs(netid) ==
    { FromNat(0), FromNat(1), FromNat(16), Sub(size(netid), FromNat(1)),
      Word(\hFFFF, \hFFFF) }

\* subnet addresses at and next to the range bounds of the first entry and of
\* the last two of the list, the SubnetAddrs of tests::test_net_id, and the
\* greatest
SubnetAddrs(list) ==
    LET at == {k \in 0 .. Len(list) : k <= 1 \/ k >= Len(list) - 2}
        bounds == {span(list, 1, k)[1] : k \in at}
    IN  UNION {{b, Sub(b, FromNat(1)), Add(b, FromNat(16))} : b \in bounds}
            \cup {FromNat(144), FromNat(1160), Word(\hFFFF, \hFFFF)}

-----------------------------------------------------------------------------
(* The caller: it holds one NetID list snapshot and calls the codec        *)

Init ==
    /\ \/ netid_list \in ShortLists
       \/ netid_list \in TestLists
       \/ netid_list \in LongLists
    /\ op = "idle"
    /\ arg = << >>
    /\ res = None
    /\ panicked = FALSE

\* an operation that does no checked arithmetic returns v
Returns(name, a, v) ==
    /\ op' = name
    /\ arg' = a
    /\ res' = v
    /\ panicked' = FALSE
    /\ UNCHANGED netid_list

\* an operation that adds or subtracts on u32, ran == <<v, overflowed>>: a
\* build without overflow checks returns v; when a + or - did not fit, a build
\* with overflow checks panics instead
ReturnsOrPanics(name, a, ran) ==
    \E r \in {ran} :
        \E outcome \in {<<r[1], FALSE>>} \cup (IF r[2] THEN {<<None, TRUE>>} ELSE {}) :
            /\ op' = name
            /\ arg' = a
            /\ res' = outcome[1]
            /\ panicked' = outcome[2]
            /\ UNCHANGED netid_list

CallNetClass ==
    /\ op = "idle"
    /\ \E d \in DevAddrs : Returns("net_class", d, net_class(d))

CallNetId ==
    /\ op = "idle"
    /\ \E d \in DevAddrs : Returns("net_id", d, NetId_from(d))

CallNetIdFromU32 ==
    /\ op = "idle"
    /\ \E v \in U32s : Returns("net_id_from_u32", v, NetId_from_u32(v))

CallIsLocal ==
    /\ op = "idle"
    /\ \E d \in DevAddrs : Returns("is_local", d, DevAddr_is_local(d, netid_list))

CallToDevaddr ==
    /\ op = "idle"
    /\ \E n \in NetIds : \E a \in NwkAddrs(n) :
          Returns("to_devaddr", <<n, a>>, to_devaddr(n, a))

CallFromNwkaddr ==
    /\ op = "idle"
    /\ \E n \in NetIds : \E a \in NwkAddrs(n) :
          Returns("from_nwkaddr", <<n, a>>, DevAddr_from_nwkaddr(n, a))

\* tests::exercise_devaddr: the DevAddr of arg, unwrapped, is decoded with
\* net_id()
ExerciseDevaddr ==
    /\ op = "from_nwkaddr"
    /\ res # None
    /\ Returns("from_nwkaddr_net_id", arg, NetId_from(res[1]))

CallAddrRange ==
    /\ op = "idle"
    /\ \E n \in NetIds :
          ReturnsOrPanics("addr_range", n, addr_range(n, netid_list))

CallFromSubnetAddr ==
    /\ op = "idle"
    /\ \E s \in SubnetAddrs(netid_list) :
          ReturnsOrPanics("from_subnet_addr", s, from_subnet_addr(s, netid_list))

CallFromDevaddr ==
    /\ op = "idle"
    /\ \E d \in DevAddrs :
          ReturnsOrPanics("from_devaddr", d, SubnetAddr_from_devaddr(d, netid_list))

CallFromSubnet ==
    /\ op = "idle"
    /\ \E s \in SubnetAddrs(netid_list) :
          ReturnsOrPanics("from_subnet", s, DevAddr_from_subnet(s, netid_list))

\* tests::exercise_subnet_list: the SubnetAddr of arg, unwrapped, goes back
\* through DevAddr::from_subnet with the same list
ExerciseSubnetList ==
    /\ op = "from_devaddr"
    /\ res # None
    /\ ReturnsOrPanics("from_devaddr_from_subnet", arg,
                       DevAddr_from_subnet(res[1], netid_list))

\* the other way round: the DevAddr of arg, unwrapped, goes back through
\* SubnetAddr::from_devaddr with the same list
ExerciseDevaddrList ==
    /\ op = "from_subnet"
    /\ res # None
    /\ ReturnsOrPanics("from_subnet_from_devaddr", arg,
                       SubnetAddr_from_devaddr(res[1], netid_list))

\* tests::test_net_id: the DevAddr minted for the subnet address arg,
\* unwrapped, is decoded with NetId::from
ExerciseSubnetNetId ==
    /\ op = "from_subnet"
    /\ res # None
    /\ Returns("from_subnet_net_id", arg, NetId_from(res[1]))

\* the caller drops the result
Return ==
    /\ op # "idle"
    /\ op' = "idle"
    /\ arg' = << >>
    /\ res' = None
    /\ panicked' = FALSE
    /\ UNCHANGED netid_list

Next ==
    \/ CallNetClass
    \/ CallNetId
    \/ CallNetIdFromU32
    \/ CallIsLocal
    \/ CallToDevaddr
    \/ CallFromNwkaddr
    \/ ExerciseDevaddr
    \/ CallAddrRange
    \/ CallFromSubnetAddr
    \/ CallFromDevaddr
    \/ CallFromSubnet
    \/ ExerciseSubnetList
    \/ ExerciseDevaddrList
    \/ ExerciseSubnetNetId
    \/ Return

Spec == Init /\ [][Next]_vars

-----------------------------------------------------------------------------
(* The vocabulary of the properties.  Spans are multiples of 2^7 (the      *)
(* least addr_len is 7), so the sums of spans are counted in units of 128  *)
(* addresses: they stay below 2^31 where the sums themselves do not.       *)

\* bit i of the u32 x
Bit(x, i) == IF i >= 16 THEN (x[1] \div (2 ^ (i - 16))) % 2 ELSE (x[2] \div (2 ^ i)) % 2

\* the number made of the len bits of x from bit from upwards
Field(x, from, len) ==
    LET f[j \in 0 .. len] == IF j = len THEN 0 ELSE Bit(x, from + j) * (2 ^ j) + f[j + 1]
    IN  f[0]

\* the class a NetId carries in its bits 21..23
ClassOf(netid) == (netid[1] \div 32) % 8

\* the span of a NetId, in units of 128 addresses
SpanUnits(netid) == 2 ^ (ADDR_LEN[ClassOf(netid) + 1] - 7)

\* the sum of the spans of the entries from .. to of the list, in units of
\* 128 addresses
RECURSIVE SpanUnitsBetween(_, _, _)
SpanUnitsBetween(list, from, to) ==
    IF from > to THEN 0
    ELSE IF from = to THEN SpanUnits(list[from])
    ELSE SpanUnitsBetween(list, from, (from + to) \div 2)
            + SpanUnitsBetween(list, (from + to) \div 2 + 1, to)

\* the sum of the spans of the first k entries of the list, in units of 128
\* addresses
SpanUnitsBefore(list, k) == SpanUnitsBetween(list, 1, k)

TotalUnits(list) == SpanUnitsBefore(list, Len(list))

\* the u32 x counted in units of 128, and what is left
Units(x) == x[1] * 512 + x[2] \div 128

Rest(x) == x[2] % 128

\* the total span of the list fits a u32 (it is at most 2^32 - 1)
SpanFits(list) == TotalUnits(list) < 2 ^ 25

\* the subnet address s lies below the total span of the list
InSpan(s, list) == Units(s) < TotalUnits(list)

\* no NetId occurs twice in the list
Distinct(list) == Cardinality({list[i] : i \in 1 .. Len(list)}) = Len(list)

\* the identifier of the NetId (its low 21 bits) fits the id_len of its class
WellFormed(netid) == Field(netid, 0, 21) < 2 ^ ID_LEN[ClassOf(netid) + 1]

\* the entries of the list are pairwise distinct, and each is well formed
DistinctWellFormed(list) ==
    Distinct(list) /\ \A i \in 1 .. Len(list) : WellFormed(list[i])

\* the position of the first entry equal to netid, 0 when there is none
FirstAt(netid, list) ==
    IF \E i \in 1 .. Len(list) : list[i] = netid
    THEN CHOOSE i \in 1 .. Len(list) : list[i] = netid /\ \A j \in 1 .. (i - 1) : list[j] # netid
    ELSE 0

-----------------------------------------------------------------------------
(* Properties                                                              *)

C2_RoundTripSubnet_AnyList ==
    /\ (op = "from_subnet" /\ InSpan(arg, netid_list)) => res # None
    /\ (op = "from_subnet_from_devaddr" /\ InSpan(arg, netid_list)) => res = Some(arg)

\* C2, amended: the same for every list L whose entries are pairwise distinct
\* and well formed (the identifier fits the id_len of the class).
C2_RoundTripSubnet ==
    /\ (op = "from_subnet" /\ DistinctWellFormed(netid_list) /\ InSpan(arg, netid_list))
          => (res # None /\ ~panicked)
    /\ (op = "from_subnet_from_devaddr" /\ DistinctWellFormed(netid_list)
            /\ InSpan(arg, netid_list))
          => (res = Some(arg) /\ ~panicked)

\* a subnet address in the span of the second entry of such a list came back
C2_Witness ==
    /\ op = "from_subnet_from_devaddr"
    /\ DistinctWellFormed(netid_list)
    /\ Len(netid_list) >= 2
    /\ Units(arg) >= SpanUnitsBefore(netid_list, 1)
    /\ res = Some(arg)

\* C3: DevAddr::is_local(d, L) is true exactly when the NetId of d is the
\* retired NetId 0x200010 or L contains it.
C3_IsLocal ==
    op = "is_local" =>
        (res <=> (\/ NetId_from(arg) = Word(\h0020, \h0010)
                  \/ \E i \in 1 .. Len(netid_list) : netid_list[i] = NetId_from(arg)))

\* a DevAddr with the retired NetId is local for the empty list
C3_Witness ==
    /\ op = "is_local"
    /\ netid_list = << >>
    /\ arg = Word(\h9000, \h0001)
    /\ res = TRUE

NwkUnits(d, c) == Field(d, 7, ADDR_LEN[c + 1] - 7)

\* what C6 says of the result r of SubnetAddr::from_devaddr(d, L)
SubnetIsLowerPlusNwkAddr(d, list, r) ==
    LET at == FirstAt(NetId_from(d), list)
    IN  /\ r = None <=> at = 0
        /\ r # None =>
              /\ Units(r[1]) = SpanUnitsBefore(list, at - 1) + NwkUnits(d, net_class(d))
              /\ Rest(r[1]) = Field(d, 0, 7)

PositionOf(s, list) ==
    IF InSpan(s, list)
    THEN 1 + Cardinality({k \in 1 .. Len(list) : SpanUnitsBefore(list, k) <= Units(s)})
    ELSE 0

\* what C7 says of the result r of NetId::from_subnet_addr(s, L)
FindsEntryOfSubnet(s, list, r) ==
    /\ r = None <=> ~InSpan(s, list)
    /\ r # None => (PositionOf(s, list) # 0 /\ r[1] = list[PositionOf(s, list)])

LeadingOnes(d) ==
    LET top == d[1] \div 256
    IN  Cardinality({k \in 1 .. 8 : top >= 256 - 2 ^ (8 - k)})

\* C8 as stated: for every DevAddr d, DevAddr::net_class is the number of
\* set bits the topmost byte of d begins with, and is in 0..7.
C8_NetClass_AnyDevAddr ==
    op = "net_class" => (res = LeadingOnes(arg) /\ res \in 0 .. 7)

\* C8, amended: DevAddr::net_class is in 0..7; it is the number of set bits
\* the topmost byte of d begins with when that byte is not 0xFF, and 0 when
\* it is 0xFF.
C8_NetClass ==
    op = "net_class" =>
        /\ res \in 0 .. 7
        /\ LeadingOnes(arg) <= 7 => res = LeadingOnes(arg)
        /\ LeadingOnes(arg) = 8 => res = 0

\* the classes 6 of 0xFD6DB7FF and 0 of 0xFFFFFFFF
C8_Witness ==
    \/ op = "net_class" /\ arg = Word(\hFD6D, \hB7FF) /\ res = 6
    \/ op = "net_class" /\ arg = Word(\hFFFF, \hFFFF) /\ res = 0

\* the NetId made of the class c and of the id_len(c) bits of d that follow
\* the c + 1 bits of the class prefix
ClassAndIdentifier(d, c) == c * (2 ^ 21) + Field(d, ADDR_LEN[c + 1], ID_LEN[c + 1])

\* C9 as stated: for every DevAddr d of derived class c, NetId::from(d) is
\* (c << 21) | identifier, the identifier being the id_len(c) bits of d that
\* follow the class prefix; it is below 2^id_len(c), and the class read back
\* from the NetId is c.
C9_NetIdFromDevAddr_AnyDevAddr ==
    op = "net_id" =>
        LET c == net_class(arg)
        IN  /\ ToNat(res) = ClassAndIdentifier(arg, c)
            /\ Field(res, 0, 21) < 2 ^ ID_LEN[c + 1]
            /\ NetClass_from(res) = c

\* C9, amended: the same for every DevAddr d whose topmost byte is not 0xFF;
\* when it is 0xFF, NetId::from(d) is 0x00007F.
C9_NetIdFromDevAddr ==
    op = "net_id" =>
        IF LeadingOnes(arg) <= 7
        THEN LET c == LeadingOnes(arg)
             IN  /\ ToNat(res) = ClassAndIdentifier(arg, c)
                 /\ Field(res, 0, 21) < 2 ^ ID_LEN[c + 1]
                 /\ NetClass_from(res) = c
        ELSE res = FromNat(\h7F)

\* the examples of C9
C9_Witness ==
    \/ op = "net_id" /\ arg = Word(\h5BFF, \hFFFF) /\ res = FromNat(\h2D)
    \/ op = "net_id" /\ arg = Word(\hFD6D, \hB7FF) /\ res = Word(\h00C0, \h5B6D)
    \/ op = "net_id" /\ arg = Word(\hE009, \hABCD) /\ res = Word(\h0060, \h0004)

\* bit j of (P(c) << id_len(c)) | (the low 21 bits of n), where P(0) is 0
\* and P(c) is c set bits followed by a 0 bit
PrefixAndIdentifierBit(n, c, j) ==
    \/ j <= 20 /\ Bit(n, j) = 1
    \/ c >= 1 /\ (j - ID_LEN[c + 1]) \in 1 .. c

\* C10: for every NetId n of class c and every nwkaddr below 2^addr_len(c),
\* NetId::to_devaddr(n, nwkaddr) is, bit for bit of a u32,
\* (((P(c) << id_len(c)) | (the low 21 bits of n)) << addr_len(c)) | nwkaddr:
\* the class bits 21..23 of n, which the code ORs in too, change nothing.
C10_ToDevaddr ==
    op = "to_devaddr" =>
        LET n == arg[1]
            nwkaddr == arg[2]
            c == ClassOf(n)
            len == ADDR_LEN[c + 1]
        IN  Lt(nwkaddr, Shl(FromNat(1), len)) =>
                \A i \in 0 .. 31 :
                    Bit(res, i) = 1 <=>
                        \/ Bit(nwkaddr, i) = 1
                        \/ i >= len /\ PrefixAndIdentifierBit(n, c, i - len)

\* NetIds of the classes 6 and 7, whose class bits would land inside the u32
\* were they not the bits of the prefix or beyond bit 31, made into DevAddrs
C10_Witness ==
    \/ op = "to_devaddr" /\ arg = <<Word(\h00C0, \h0035), FromNat(16)>>
                         /\ res = Word(\hFC00, \hD410)
    \/ op = "to_devaddr" /\ arg = <<Word(\h00E0, \h0001), FromNat(0)>>
                         /\ res = Word(\hFE00, \h0080)

\* x is below 2^24
Below24(x) == x[1] < 2 ^ 8

\* C11: for every 32-bit integer v, NetId::from(v) holds v mod 2^24 (the low
\* 8 bits of the upper half of v, and its lower half); and every NetId that
\* NetId::from(DevAddr) makes is below 2^24.
C11_NetIdLow24Bits ==
    /\ op = "net_id_from_u32" =>
            ToNat(res) = (arg[1] % (2 ^ 8)) * Half + arg[2]
    /\ op = "net_id" => Below24(res)

\* 0xFF60002D, truncated to 0x60002D, and the NetId of 0xFFFFFFFF
C11_Witness ==
    \/ op = "net_id_from_u32" /\ arg = Word(\hFF60, \h002D)
                              /\ res = Word(\h0060, \h002D)
    \/ op = "net_id" /\ arg = Word(\hFFFF, \hFFFF) /\ Below24(res)

\* what C12 states of the NetId n and the nwkaddr a in arg: from_nwkaddr is
\* present and its DevAddr has a class of at most 7, and net_id() of that
\* DevAddr is n
RoundTripNetId ==
    /\ op = "from_nwkaddr" => (res # None /\ net_class(res[1]) \in 0 .. 7)
    /\ op = "from_nwkaddr_net_id" => (res = arg[1] /\ NetClass_from(res) \in 0 .. 7)

\* C12 as stated: for every 24-bit NetId n and every nwkaddr a below
\* 2^addr_len(class of n), DevAddr::from_nwkaddr(n, a) is present, has a
\* class of at most 7, and decodes back to n via net_id().
C12_RoundTripNetId_AnyNetId ==
    (op \in {"from_nwkaddr", "from_nwkaddr_net_id"} /\ Lt(arg[2], size(arg[1])))
        => RoundTripNetId

\* C12, amended: the same for every 24-bit NetId n whose identifier (its low
\* 21 bits) is below 2^id_len(class of n).
C12_RoundTripNetId ==
    (op \in {"from_nwkaddr", "from_nwkaddr_net_id"} /\ Lt(arg[2], size(arg[1]))
        /\ WellFormed(arg[1]))
        => RoundTripNetId

\* 0xC00035 with the local address 16 comes back from 0xFC00D410
C12_Witness ==
    /\ op = "from_nwkaddr_net_id"
    /\ arg = <<Word(\h00C0, \h0035), FromNat(16)>>
    /\ res = Word(\h00C0, \h0035)

\* n is an entry of the list and its range, the (lower, upper) of
\* addr_range, contains s; where the total span fits a u32 that range is
\* the sum of the spans before the first n, and that sum plus the span of n
RangeOfEntryContains(n, s, list) ==
    /\ FirstAt(n, list) > 0
    /\ LET r == addr_range(n, list)[1]
       IN  r # None /\ Ge(s, r[1][1]) /\ Lt(s, r[1][2])
    /\ SpanFits(list) =>
          LET k == FirstAt(n, list)
          IN  /\ SpanUnitsBefore(list, k - 1) <= Units(s)
              /\ Units(s) < SpanUnitsBefore(list, k)

\* what C13 states of the subnet address in arg: the NetId of the DevAddr
\* minted for it is the entry whose range contains it, and subnet 0 of a
\* list that is not empty gets a DevAddr, whose NetId is the first entry
MintedNetId ==
    /\ op = "from_subnet_net_id" => RangeOfEntryContains(res, arg, netid_list)
    /\ (arg = FromNat(0) /\ Len(netid_list) > 0) =>
          /\ op = "from_subnet" => res # None
          /\ op = "from_subnet_net_id" => res = netid_list[1]

\* C13 as stated: for every NetID list L and SubnetAddr s for which
\* DevAddr::from_subnet(s, L) returns d, NetId::from(d) is the list entry
\* whose range contains s; subnet 0 of a non-empty L resolves to a DevAddr
\* whose NetId is L[0].
C13_MintedNetId_AnyList ==
    op \in {"from_subnet", "from_subnet_net_id"} => MintedNetId

\* C13, amended: the same for every NetID list L whose entries are well
\* formed (the identifier, the low 21 bits, is below 2^id_len(class)).
C13_MintedNetId ==
    (op \in {"from_subnet", "from_subnet_net_id"}
        /\ \A i \in 1 .. Len(netid_list) : WellFormed(netid_list[i]))
        => MintedNetId

\* subnet 0 of NetIDList of tests::test_net_id: the NetId is 0xE00001; and
\* subnet 1160, the NetId of which is the third entry
C13_Witness ==
    \/ op = "from_subnet_net_id" /\ netid_list = TestList /\ arg = FromNat(0)
                                 /\ res = Word(\h00E0, \h0001)
    \/ op = "from_subnet_net_id" /\ netid_list = TestList /\ arg = FromNat(1160)
                                 /\ res = Word(\h0060, \h002D)

\* C14: for every NetID list L and SubnetAddr s, whenever DevAddr::from_subnet
\* finds a NetId n for s, its subtraction s - lower(n) does not underflow, and
\* the local address it passes to to_devaddr is below 2^addr_len(class of n).
C14_FromSubnetPreconditions ==
    op = "from_subnet" =>
        LET call == from_subnet_nwkaddr(arg, netid_list)[1]
        IN  call # None =>
                /\ ~call[1][3]
                /\ Lt(call[1][2], Shl(FromNat(1), ADDR_LEN[ClassOf(call[1][1]) + 1]))

\* subnet 1160 of NetIDList of tests::test_net_id: 0x60002D is found, and
\* the local address 1160 - 1152 makes 0xE05A0008
C14_Witness ==
    /\ op = "from_subnet"
    /\ netid_list = TestList
    /\ arg = FromNat(1160)
    /\ from_subnet_nwkaddr(arg, netid_list)[1]
            = Some(<<Word(\h0060, \h002D), FromNat(8), FALSE>>)
    /\ res = Some(Word(\hE05A, \h0008))

\* C15 as stated: for every NetID list L and every member n of L, the sums
\* lower and upper of addr_range(n, L), and the lower + nwk_addr(d) of
\* SubnetAddr::from_devaddr, stay within a u32: no + wraps around, and no
\* call panics on overflow.
C15_NoOverflow ==
    /\ (op = "addr_range" /\ contains(netid_list, arg)) =>
            (~panicked /\ ~addr_range(arg, netid_list)[2])
    /\ (op = "from_devaddr" /\ contains(netid_list, NetId_from(arg))) =>
            (~panicked /\ ~SubnetAddr_from_devaddr(arg, netid_list)[2])

=============================================================================
